---- MODULE Spec2Model ----
(***************************************************************************)
(* A model of the grpcp file-transfer service (src/server.go): the Upload  *)
(* and Download stream handlers, Ping, Shutdown, and the file system and   *)
(* transport they act on.                                                  *)
(*                                                                         *)
(* Files are sequences of bytes.  Every system call of a handler (open,    *)
(* stat, read, write, close) and every transport call (Recv, Send,         *)
(* SendAndClose) can fail; a failure is a nondeterministic choice.         *)
(***************************************************************************)
EXTENDS Integers, Sequences, FiniteSets, TLC

\* ------------------------------------------------------------------ bounds

\* Messages a client sends on one Upload stream before it closes it.
MaxMsgs == 2
\* Longest file present before the sessions start.
MaxFileLen == 2
\* Largest size a client declares in an Upload message.
MaxSize == 3
\* Modifications a concurrent writer makes to the files.
MaxWrites == 2

\* The chunk buffer capacity, 1024 * 1024 in the source, scaled down.
StreamBufferSize == 2

\* ------------------------------------------------------------------ values

Paths == {"a", "b"}
\* Bytes a client sends.
Bytes == {1, 2}
\* The other bytes of a file: the files present at the start hold the
\* bytes after old,
\* new is what a concurrent writer appends, hole is what reads back from
\* the gap left by a write beyond the end of a file.
Fill == [old |-> 10, new |-> 8, hole |-> 0]
UploadIds == {"u1", "u2"}
DownloadIds == {"d1"}
\* Messages a client puts in a PingRequest.
PingMessages == {"", "ping"}

Min(a, b) == IF a < b THEN a ELSE b

Repeat(x, n) == [i \in 1..n |-> x]

Take(s, n) == SubSeq(s, 1, Min(n, Len(s)))

Drop(s, n) == SubSeq(s, n + 1, Len(s))

\* Byte strings of length at most n.
Contents(n) == UNION {[1..k -> Bytes] : k \in 0..n}

RECURSIVE Concat(_)
Concat(ss) == IF ss = <<>> THEN <<>> ELSE Head(ss) \o Concat(Tail(ss))

\* pb.FileUploadRequest
FileUploadRequest ==
  [Filename : Paths, Content : Contents(StreamBufferSize), Size : 0..MaxSize]

\* ------------------------------------------------------------------ state

VARIABLES
  files,     \* the file system: path -> [exists, data]
  files0,    \* the file system before any session started
  up,        \* the Upload sessions: the locals of server.upload
  down,      \* the Download sessions: the locals of server.download
  ping,      \* the Ping call
  sh,        \* the Shutdown call, its response and its timer goroutine
  lsn,       \* the call of newListener: its arguments, locals and result
  writes,    \* modifications made by the concurrent writer
  exited     \* the process has called os.Exit

vars == <<files, files0, up, down, ping, sh, lsn, writes, exited>>

NoFile == [exists |-> FALSE, data |-> <<>>]

File(data) == [exists |-> TRUE, data |-> data]

\* The nil *os.File
NilFile == [valid |-> FALSE, path |-> "", off |-> 0, closed |-> FALSE]

\* The content of a file of n bytes that is there at the start: every
\* byte differs from the others and from what a client or a writer stores.
Old(n) == [i \in 1..n |-> Fill.old + i]

\* The files a path can hold at the start: path "a" none or one of any
\* length up to MaxFileLen, path "b" none or one of a single byte.
InitFiles(p) ==
  IF p = "a"
  THEN {NoFile} \cup {File(Old(n)) : n \in 0..MaxFileLen}
  ELSE {NoFile, File(Old(1))}

\* The locals of server.upload at its entry (req: the message Recv gave,
\* while the iteration that handles it lasts), and what the stream has
\* delivered so far (first: the Filename and Size of the first message,
\* chunks: the Content of every message, in order; eof, recvErr: Recv has
\* returned io.EOF, another error; opens: the calls of os.OpenFile;
\* written: the bytes f.Write has stored).
UploadInit ==
  [pc |-> "recv", once |-> FALSE, f |-> NilFile, totalBytes |-> 0,
   expectedSize |-> 0, req |-> <<>>, err |-> "", acked |-> FALSE,
   first |-> <<>>, chunks |-> <<>>, eof |-> FALSE, recvErr |-> FALSE,
   opens |-> 0, written |-> 0]

\* The locals of server.download at its entry, and what the stream has
\* carried so far (sent: the messages whose Send succeeded; statSize: the
\* length the file had when f.Stat ran; changes: the changes of the file's
\* length made after f.Stat and before the handler saw io.EOF, each with
\* its kind and whether the handler had then read fewer bytes than the
\* size f.Stat gave).
DownloadInit ==
  [pc |-> "open", f |-> NilFile, expectedBytes |-> 0, totalBytes |-> 0,
   buf |-> <<>>, err |-> "", sent |-> <<>>, statSize |-> 0,
   changes |-> <<>>]

PingInit == [pc |-> "idle", req |-> "", resp |-> "", err |-> ""]

\* pc: the handler; timer: the goroutine of the handler; flushed: the
\* transport has written the response to the caller; inflight: the
\* sessions that were in progress when the handler was called.
ShutdownInit ==
  [pc |-> "idle", timer |-> "none", flushed |-> FALSE, inflight |-> {}]

\* newListener not called.
ListenerInit ==
  [pc |-> "idle", addr |-> "", opt |-> <<>>, lis |-> "none", gen |-> "none",
   ret |-> "none", err |-> ""]

\* The sessions of a service that is serving.
InitSessions ==
  /\ files \in {fs \in [Paths -> UNION {InitFiles(p) : p \in Paths}] :
                  \A p \in Paths : fs[p] \in InitFiles(p)}
  /\ files0 = files
  /\ up = [u \in UploadIds |-> UploadInit]
  /\ down = [d \in DownloadIds |-> DownloadInit]
  /\ ping = PingInit
  /\ sh = ShutdownInit
  /\ writes = 0
  /\ exited = FALSE

Init == InitSessions /\ lsn = ListenerInit

\* ------------------------------------------------------------ file system

\* os.OpenFile(name, O_WRONLY|O_CREATE, 0644): creates the file when it is
\* absent and leaves an existing file's content in place; the offset is 0.
OpenFileCreate(fs, p) ==
  IF fs[p].exists THEN fs ELSE [fs EXCEPT ![p] = File(<<>>)]

\* The first n bytes of b written at offset off of the data d: the bytes
\* under them are overwritten, a hole before them reads as zeros, and the
\* bytes after them stay.
WriteAt(d, off, b, n) ==
  LET pad == IF off > Len(d) THEN Repeat(Fill.hole, off - Len(d)) ELSE <<>>
  IN  Take(d, off) \o pad \o Take(b, n) \o Drop(d, off + n)

\* ----------------------------------------------------------------- Upload

\* UploadReturn that notes the outcome and stays in the loop.
UploadReturn_Stay(s, err) == [s EXCEPT !.err = err, !.req = <<>>]

\* return: the handler leaves with err (server.upload has no deferred call
\* and closes nothing).
UploadReturn(s, err) == [s EXCEPT !.pc = "done", !.err = err, !.req = <<>>]

\* io.EOF from Recv: the client has closed its side of the stream.
UploadSawEOF(s) == [s EXCEPT !.eof = TRUE]

\* Another error from Recv: the transport has failed.
UploadSawErr(s) == [s EXCEPT !.recvErr = TRUE]

\* UploadAtEOF without the size check.
UploadAtEOF_NoSizeCheck(s, sendOk) ==
  IF sendOk
  THEN UploadReturn([s EXCEPT !.acked = TRUE], "nil")
  ELSE UploadReturn(s, "send")

\* Recv returned io.EOF: the size check, then SendAndClose (sendOk: the
\* transport delivered the acknowledgement).
UploadAtEOF(s, sendOk) ==
  IF s.totalBytes # s.expectedSize
  THEN UploadReturn(s, "size mismatch")
  ELSE IF sendOk
       THEN UploadReturn([s EXCEPT !.acked = TRUE], "nil")
       ELSE UploadReturn(s, "send")

\* UploadOnce without the sync.Once: every message opens its Filename and
\* sets the declared size.
UploadOnce_EveryMessage(s, m, openOk) ==
  [s EXCEPT !.once = TRUE,
            !.opens = @ + 1,
            !.f = IF openOk
                  THEN [valid |-> TRUE, path |-> m.Filename, off |-> s.f.off,
                        closed |-> FALSE]
                  ELSE NilFile,
            !.expectedSize = m.Size]

\* once.Do: on the first message only, open the destination (openOk: the
\* open succeeded) and take the declared size.
UploadOnce(s, m, openOk) ==
  IF s.once THEN s
  ELSE [s EXCEPT !.once = TRUE,
                 !.opens = @ + 1,
                 !.f = IF openOk
                       THEN [valid |-> TRUE, path |-> m.Filename, off |-> 0,
                             closed |-> FALSE]
                       ELSE NilFile,
                 !.expectedSize = m.Size]

\* What the stream has delivered, after message m.
UploadDelivered(s, m) ==
  [s EXCEPT !.first = IF s.chunks = <<>>
                      THEN <<[Filename |-> m.Filename, Size |-> m.Size]>>
                      ELSE @,
            !.chunks = Append(@, m.Content)]

\* UploadWritten with totalBytes = n in place of totalBytes += n.
UploadWritten_Assign(s, n) ==
  [s EXCEPT !.pc = "recv", !.req = <<>>, !.totalBytes = n,
            !.f.off = @ + n, !.written = @ + n]

\* f.Write returned n and no error: the running total and the offset move.
UploadWritten(s, n) ==
  [s EXCEPT !.pc = "recv", !.req = <<>>, !.totalBytes = @ + n,
            !.f.off = @ + n, !.written = @ + n]

\* UploadRecvEOF removing the destination when the sizes do not match.
UploadRecvEOF_Cleanup(u) ==
  /\ ~exited
  /\ up[u].pc = "recv"
  /\ \E sendOk \in BOOLEAN :
       up' = [up EXCEPT ![u] = UploadAtEOF(UploadSawEOF(@), sendOk)]
  /\ files' = IF up[u].f.valid /\ up[u].totalBytes # up[u].expectedSize
              THEN [files EXCEPT ![up[u].f.path] = NoFile]
              ELSE files
  /\ UNCHANGED <<files0, down, ping, sh, lsn, writes, exited>>

\* stream.Recv() returns io.EOF.
UploadRecvEOF(u) ==
  /\ ~exited
  /\ up[u].pc = "recv"
  /\ \E sendOk \in BOOLEAN : 
       up' = [up EXCEPT ![u] = UploadAtEOF(UploadSawEOF(@), sendOk)]
  /\ UNCHANGED <<files, files0, down, ping, sh, lsn, writes, exited>>

\* UploadRecvErr taking every error of Recv for io.EOF.
UploadRecvErr_AsEOF(u) ==
  /\ ~exited
  /\ up[u].pc = "recv"
  /\ \E sendOk \in BOOLEAN :
       LET s == UploadAtEOF(UploadSawErr(up[u]), sendOk)
       IN  up' = [up EXCEPT ![u] =
                    IF s.err = "nil" THEN s ELSE UploadReturn(s, "recv")]
  /\ UNCHANGED <<files, files0, down, ping, sh, lsn, writes, exited>>

\* UploadRecvErr ending the process, as log.Fatal would.
UploadRecvErr_Fatal(u) ==
  /\ ~exited
  /\ up[u].pc = "recv"
  /\ up' = [up EXCEPT ![u] = UploadReturn(UploadSawErr(@), "recv")]
  /\ exited' = TRUE
  /\ UNCHANGED <<files, files0, down, ping, sh, lsn, writes>>

\* stream.Recv() returns another error.
UploadRecvErr(u) ==
  /\ ~exited
  /\ up[u].pc = "recv"
  /\ up' = [up EXCEPT ![u] = UploadReturn(UploadSawErr(@), "recv")]
  /\ UNCHANGED <<files, files0, down, ping, sh, lsn, writes, exited>>

\* stream.Recv() returns a message, one of those in M, then once.Do and
\* the check of its open.
UploadRecvMsgFrom(u, M) ==
  /\ ~exited
  /\ up[u].pc = "recv"
  /\ Len(up[u].chunks) < MaxMsgs
  /\ \E m \in M, openOk \in BOOLEAN :
       LET first == ~up[u].once
           s == UploadOnce(UploadDelivered(up[u], m), m, openOk)
       IN  /\ files' = IF first /\ openOk
                       THEN OpenFileCreate(files, m.Filename)
                       ELSE files
           /\ up' = [up EXCEPT ![u] =
                       IF ~s.f.valid
                       THEN UploadReturn(s, "open")
                       ELSE [s EXCEPT !.pc = "write", !.req = <<m>>]]
  /\ UNCHANGED <<files0, down, ping, sh, lsn, writes, exited>>

\* stream.Recv() returns a message, any a client can send.
UploadRecvMsg(u) == UploadRecvMsgFrom(u, FileUploadRequest)

\* UploadWrite under a lock of the destination: it waits while another
\* session holds a handle on the same path.
UploadWrite_Locked(u) ==
  /\ ~exited
  /\ up[u].pc = "write"
  /\ \A v \in UploadIds \ {u} :
       (up[v].f.valid /\ up[v].f.path = up[u].f.path) => up[v].pc = "done"
  /\ LET s == up[u]
         b == s.req[1].Content
     IN  /\ files' = [files EXCEPT ![s.f.path].data =
                        WriteAt(@, s.f.off, b, Len(b))]
         /\ up' = [up EXCEPT ![u] = UploadWritten(s, Len(b))]
  /\ UNCHANGED <<files0, down, ping, sh, lsn, writes, exited>>

\* f.Write(req.Content): all of it is written, or n < len of it and an
\* error is returned.
UploadWrite(u) ==
  /\ ~exited
  /\ up[u].pc = "write"
  /\ LET s == up[u]
         b == s.req[1].Content
     IN  \/ /\ files' = [files EXCEPT ![s.f.path].data =
                           WriteAt(@, s.f.off, b, Len(b))]
            /\ up' = [up EXCEPT ![u] = UploadWritten(s, Len(b))]
         \/ \E n \in 0..(Len(b) - 1) :
              /\ files' = [files EXCEPT ![s.f.path].data =
                             WriteAt(@, s.f.off, b, n)]
              /\ up' = [up EXCEPT ![u] =
                          UploadReturn([s EXCEPT !.written = @ + n], "write")]
         \/ /\ up' = [up EXCEPT ![u] = UploadReturn(s, "write")]
            /\ UNCHANGED files
  /\ UNCHANGED <<files0, down, ping, sh, lsn, writes, exited>>

UploadNext(u) ==
  \/ UploadRecvEOF(u)
  \/ UploadRecvErr(u)
  \/ UploadRecvMsg(u)
  \/ UploadWrite(u)

\* The messages of a client that sends one byte at a time to path "a" and
\* declares a size of 2.
ByteRequests ==
  {m \in FileUploadRequest :
     m.Filename = "a" /\ Len(m.Content) = 1 /\ m.Size = 2}

\* An Upload session of such a client.
UploadNextBytes(u) ==
  \/ UploadRecvEOF(u)
  \/ UploadRecvErr(u)
  \/ UploadRecvMsgFrom(u, ByteRequests)
  \/ UploadWrite(u)

\* --------------------------------------------------------------- Download

\* DownloadReturn with f.Close() called on the successful path only.
DownloadReturn_CloseOnSuccess(s, err) ==
  [s EXCEPT !.pc = "done", !.err = err, !.buf = <<>>,
            !.f.closed = IF s.f.valid /\ err = "nil" THEN TRUE ELSE @]

\* return: the handler leaves with err; the deferred f.Close() (registered
\* once os.Open has succeeded) runs.
DownloadReturn(s, err) ==
  [s EXCEPT !.pc = "done", !.err = err, !.buf = <<>>,
            !.f.closed = IF s.f.valid THEN TRUE ELSE @]

\* DownloadAtEOF without the size check.
DownloadAtEOF_NoSizeCheck(s) == DownloadReturn(s, "nil")

\* DownloadAtEOF with a check for too few bytes only.
DownloadAtEOF_ShortOnly(s) ==
  IF s.totalBytes < s.expectedBytes
  THEN DownloadReturn(s, "size mismatch")
  ELSE DownloadReturn(s, "nil")

\* f.Read returned io.EOF: the size check.
DownloadAtEOF(s) ==
  IF s.totalBytes # s.expectedBytes
  THEN DownloadReturn(s, "size mismatch")
  ELSE DownloadReturn(s, "nil")

\* st.Size() becomes expectedBytes.
DownloadStatted(s, size) ==
  [s EXCEPT !.pc = "read", !.expectedBytes = size, !.statSize = size]

\* DownloadSent with the whole buffer as Content, and not buf[:n].
DownloadSent_WholeBuf(s) ==
  [s EXCEPT !.pc = "read", !.buf = <<>>,
            !.sent = Append(@, [Content |-> s.buf \o
                                  Repeat(Fill.hole,
                                         StreamBufferSize - Len(s.buf)),
                                Size |-> s.expectedBytes]),
            !.totalBytes = @ + Len(s.buf)]

\* stream.Send succeeded: the message is on the stream, the total moves.
DownloadSent(s) ==
  [s EXCEPT !.pc = "read", !.buf = <<>>,
            !.sent = Append(@, [Content |-> s.buf, Size |-> s.expectedBytes]),
            !.totalBytes = @ + Len(s.buf)]

\* os.Open(req.Filename): fails on an absent file, and may fail otherwise.
DownloadOpen(d) ==
  /\ ~exited
  /\ down[d].pc = "open"
  /\ \E p \in Paths, ok \in BOOLEAN :
       down' = [down EXCEPT ![d] =
                  IF ok /\ files[p].exists
                  THEN [@ EXCEPT !.pc = "stat",
                                 !.f = [valid |-> TRUE, path |-> p, off |-> 0,
                                        closed |-> FALSE]]
                  ELSE DownloadReturn(@, "open")]
  /\ UNCHANGED <<files, files0, up, ping, sh, lsn, writes, exited>>

\* f.Stat()
DownloadStat(d) ==
  /\ ~exited
  /\ down[d].pc = "stat"
  /\ \/ down' = [down EXCEPT ![d] =
                   DownloadStatted(@, Len(files[@.f.path].data))]
     \/ down' = [down EXCEPT ![d] = DownloadReturn(@, "stat")]
  /\ UNCHANGED <<files, files0, up, ping, sh, lsn, writes, exited>>

\* f.Read(buf): io.EOF at or beyond the end of the file, else between 1 and
\* StreamBufferSize of the bytes at the offset; or an error.
DownloadRead(d) ==
  /\ ~exited
  /\ down[d].pc = "read"
  /\ LET s == down[d]
         data == files[s.f.path].data
         avail == Len(data) - s.f.off
     IN  \/ /\ avail <= 0
            /\ down' = [down EXCEPT ![d] = DownloadAtEOF(s)]
         \/ /\ avail > 0
            /\ \E n \in 1..Min(StreamBufferSize, avail) :
                 down' = [down EXCEPT ![d] =
                            [s EXCEPT !.pc = "send",
                                      !.buf = SubSeq(data, s.f.off + 1,
                                                     s.f.off + n),
                                      !.f.off = @ + n]]
         \/ down' = [down EXCEPT ![d] = DownloadReturn(s, "read")]
  /\ UNCHANGED <<files, files0, up, ping, sh, lsn, writes, exited>>

\* stream.Send(&pb.FileDownloadResponse{...})
DownloadSend(d) ==
  /\ ~exited
  /\ down[d].pc = "send"
  /\ \/ down' = [down EXCEPT ![d] = DownloadSent(@)]
     \/ down' = [down EXCEPT ![d] = DownloadReturn(@, "send")]
  /\ UNCHANGED <<files, files0, up, ping, sh, lsn, writes, exited>>

DownloadNext(d) ==
  \/ DownloadOpen(d)
  \/ DownloadStat(d)
  \/ DownloadRead(d)
  \/ DownloadSend(d)

\* ------------------------------------------------------ concurrent writer

\* Another process changes the length of file p to that of data; the
\* Download sessions that have stat'ed p and not yet seen io.EOF are the
\* ones the change falls on.
Modified(p, data, kind) ==
  /\ files' = [files EXCEPT ![p].data = data]
  /\ down' = [d \in DownloadIds |->
                IF /\ down[d].pc \in {"read", "send"}
                   /\ down[d].f.path = p
                THEN [down[d] EXCEPT !.changes =
                        Append(@, [kind |-> kind,
                                   early |-> down[d].f.off
                                               < down[d].expectedBytes])]
                ELSE down[d]]
  /\ writes' = writes + 1

WriterTruncate ==
  /\ ~exited
  /\ writes < MaxWrites
  /\ \E p \in Paths :
       /\ files[p].exists
       /\ \E k \in 0..(Len(files[p].data) - 1) :
            Modified(p, Take(files[p].data, k), "truncate")
  /\ UNCHANGED <<files0, up, ping, sh, lsn, exited>>

WriterExtend ==
  /\ ~exited
  /\ writes < MaxWrites
  /\ \E p \in Paths :
       /\ files[p].exists
       /\ Len(files[p].data) <= MaxFileLen
       /\ Modified(p, Append(files[p].data, Fill.new), "extend")
  /\ UNCHANGED <<files0, up, ping, sh, lsn, exited>>

Writer == WriterTruncate \/ WriterExtend

\* ------------------------------------------------------------------- Ping

\* PingResponse echoing the request.
PingResponse_Echo(req) == [resp |-> req, err |-> "nil"]

\* &pb.PingResponse{Message: "pong"}, nil
PingResponse(req) == [resp |-> "pong", err |-> "nil"]

\* Ping waiting for the Upload sessions that are between two Recv calls.
Ping_Serialized ==
  /\ ~exited
  /\ ping.pc = "idle"
  /\ \A u \in UploadIds : up[u].pc # "write"
  /\ \E msg \in PingMessages :
       ping' = [pc |-> "done", req |-> msg, resp |-> "pong", err |-> "nil"]
  /\ UNCHANGED <<files, files0, up, down, sh, lsn, writes, exited>>

Ping ==
  /\ ~exited
  /\ ping.pc = "idle"
  /\ \E msg \in PingMessages :
       ping' = [pc |-> "done", req |-> msg,
                resp |-> PingResponse(msg).resp, err |-> PingResponse(msg).err]
  /\ UNCHANGED <<files, files0, up, down, sh, lsn, writes, exited>>

\* --------------------------------------------------------------- Shutdown

\* The sessions in progress: an Upload that has received a message, a
\* Download that has opened its file, and neither has returned.
InProgress ==
  {u \in UploadIds : up[u].pc # "done" /\ up[u].chunks # <<>>}
    \cup {d \in DownloadIds : down[d].pc \notin {"open", "done"}}

\* The handler starts the goroutine that waits on its timer.
ShutdownGo ==
  /\ ~exited
  /\ sh.pc = "idle"
  /\ sh' = [sh EXCEPT !.pc = "started", !.timer = "waiting",
                      !.inflight = InProgress]
  /\ UNCHANGED <<files, files0, up, down, ping, lsn, writes, exited>>

\* return &pb.ShutdownResponse{}, nil
ShutdownReturn ==
  /\ ~exited
  /\ sh.pc = "started"
  /\ sh' = [sh EXCEPT !.pc = "returned"]
  /\ UNCHANGED <<files, files0, up, down, ping, lsn, writes, exited>>

\* The transport writes the handler's response to the caller.
ShutdownFlush ==
  /\ ~exited
  /\ sh.pc = "returned"
  /\ ~sh.flushed
  /\ sh' = [sh EXCEPT !.flushed = TRUE]
  /\ UNCHANGED <<files, files0, up, down, ping, lsn, writes, exited>>

\* ShutdownExit without the os.Exit(0): the timer fires and the process
\* goes on.
ShutdownExit_NoExit ==
  /\ ~exited
  /\ sh.timer = "waiting"
  /\ sh' = [sh EXCEPT !.timer = "fired"]
  /\ UNCHANGED <<files, files0, up, down, ping, lsn, writes, exited>>

\* <-tm.C, then os.Exit(0): nothing orders the timer with the transport.
ShutdownExit ==
  /\ ~exited
  /\ sh.timer = "waiting"
  /\ sh' = [sh EXCEPT !.timer = "fired"]
  /\ exited' = TRUE
  /\ UNCHANGED <<files, files0, up, down, ping, lsn, writes>>

Shutdown == ShutdownGo \/ ShutdownReturn \/ ShutdownFlush \/ ShutdownExit

\* ------------------------------------------------------------ newListener

Addrs == {"localhost:8022", "0.0.0.0:8022"}

\* The fields of ServerOption that newListener reads.
ServerOption ==
  [TLS : BOOLEAN, CertFile : {"", "cert.pem"}, KeyFile : {"", "key.pem"}]

\* Which of the two makers of a tls.Config newListener calls.
TLSConfigSource(opt) ==
  IF opt.CertFile = "" \/ opt.KeyFile = "" THEN "genSelfSignedTLS"
                                           ELSE "genTLS"

\* return ret, err: lis, the socket net.Listen has bound, stays as it is.
NewListenerReturn(l, ret, err) ==
  [l EXCEPT !.pc = "done", !.ret = ret, !.err = err]

\* newListener(addr, opt) is called.
NewListenerCall ==
  /\ lsn.pc = "idle"
  /\ \E addr \in Addrs, opt \in ServerOption :
       lsn' = [lsn EXCEPT !.pc = "listen", !.addr = addr, !.opt = <<opt>>]
  /\ UNCHANGED <<files, files0, up, down, ping, sh, writes, exited>>

\* net.Listen("tcp", addr), and the return of the plain listener when
\* opt.TLS is false.
NewListenerListen ==
  /\ lsn.pc = "listen"
  /\ \/ lsn' = NewListenerReturn(lsn, "nil", "listen")
     \/ LET l == [lsn EXCEPT !.lis = "open"]
        IN  lsn' = IF ~l.opt[1].TLS
                   THEN NewListenerReturn(l, "plain", "nil")
                   ELSE [l EXCEPT !.pc = "tls"]
  /\ UNCHANGED <<files, files0, up, down, ping, sh, writes, exited>>

\* genSelfSignedTLS() or genTLS(opt.CertFile, opt.KeyFile), either of
\* which gives a configuration or an error, and tls.NewListener.
NewListenerTLS ==
  /\ lsn.pc = "tls"
  /\ LET l == [lsn EXCEPT !.gen = TLSConfigSource(lsn.opt[1])]
     IN  \/ lsn' = NewListenerReturn(l, "nil", "tls config")
         \/ lsn' = NewListenerReturn(l, "tls", "nil")
  /\ UNCHANGED <<files, files0, up, down, ping, sh, writes, exited>>

newListener == NewListenerCall \/ NewListenerListen \/ NewListenerTLS

\* --------------------------------------------------------- specifications

\* One Upload session on its own.
NextUpload == UploadNext("u1")

SpecUpload == Init /\ [][NextUpload]_vars

\* One Download session and a concurrent writer of the files.
NextDownload == DownloadNext("d1") \/ Writer

SpecDownload == Init /\ [][NextDownload]_vars

\* An Upload session and a Download session, with no other writer.
NextTransfer == UploadNext("u1") \/ DownloadNext("d1")

SpecTransfer == Init /\ [][NextTransfer]_vars

\* A Ping call and an Upload session.
NextPingUpload == Ping \/ UploadNext("u1")

SpecPingUpload == Init /\ [][NextPingUpload]_vars

\* A Shutdown call beside a Ping call and a Download session.
NextShutdown == Shutdown \/ Ping \/ DownloadNext("d1")

SpecShutdown == Init /\ [][NextShutdown]_vars

\* An Upload session of a client that sends one byte at a time, a Download
\* session and a Ping call.
NextSessions == UploadNextBytes("u1") \/ DownloadNext("d1") \/ Ping

SpecSessions == Init /\ [][NextSessions]_vars

\* A Shutdown call beside an Upload session of a client that sends one
\* byte at a time and a Download session.
NextShutdownTransfer ==
  Shutdown \/ UploadNextBytes("u1") \/ DownloadNext("d1")

SpecShutdownTransfer == Init /\ [][NextShutdownTransfer]_vars

\* Two Upload sessions at once, each handler on its own goroutine.
NextTwoUploads == \E u \in UploadIds : UploadNextBytes(u)

SpecTwoUploads == Init /\ [][NextTwoUploads]_vars

\* An Upload and a Download whose handlers keep being scheduled, the
\* inbound stream of the Upload ending after MaxMsgs messages at the most,
\* and no file growing but by what the Upload writes.
NextTerminate == UploadNextBytes("u1") \/ DownloadNext("d1")

SpecTerminate ==
  /\ Init
  /\ [][NextTerminate]_vars
  /\ WF_vars(UploadNextBytes("u1"))
  /\ WF_vars(DownloadNext("d1"))

\* The start of the service: newListener alone, before any handler runs.
NextListener == newListener

SpecListener == Init /\ [][NextListener]_vars

\* The service: its start, every session, the writer and the Shutdown call.
Next ==
  \/ \E u \in UploadIds : UploadNext(u)
  \/ \E d \in DownloadIds : DownloadNext(d)
  \/ Writer
  \/ Ping
  \/ Shutdown
  \/ newListener

Spec == Init /\ [][Next]_vars

\* ----------------------------------------------------------------- claims

\* The Filename and Size the first message of a session declared.
Declared(s) == s.first[1]

\* The size a session has been given: that of its first message, 0 before.
DeclaredSize(s) == IF s.first = <<>> THEN 0 ELSE Declared(s).Size

\* The content bytes a session has received, in order.
Received(s) == Concat(s.chunks)

\* The content bytes a Download session has put on its stream, in order.
SentBytes(s) == Concat([i \in 1..Len(s.sent) |-> s.sent[i].Content])

\* C1: after an Upload that ended with the success acknowledgement, the
\* destination file exists, its content is the concatenation of the chunks
\* received, and its size is the declared size, whether or not the file
\* existed before.
C1_UploadedFileIsChunks ==
  \A u \in UploadIds :
    (up[u].acked /\ up[u].first # <<>>) =>
      /\ files[Declared(up[u]).Filename] = File(Received(up[u]))
      /\ Len(files[Declared(up[u]).Filename].data) = Declared(up[u]).Size

\* C2: when the stream ends with a total of received content bytes other
\* than the size the first message declared, the session ends with the
\* size-mismatch error and no acknowledgement; the acknowledgement is sent
\* only at end-of-stream with the running total equal to the declared size.
C2_SizeMismatchIsTerminal ==
  \A u \in UploadIds :
    LET s == up[u]
    IN  /\ (s.eof /\ s.first # <<>> /\ Len(Received(s)) # Declared(s).Size)
             => (s.pc = "done" /\ s.err = "size mismatch" /\ ~s.acked)
        /\ s.acked =>
             /\ s.eof
             /\ s.totalBytes = Len(Received(s))
             /\ s.totalBytes = DeclaredSize(s)

C2_Witness ==
  \E u \in UploadIds :
    /\ up[u].pc = "done"
    /\ up[u].eof
    /\ Len(up[u].chunks) = 2
    /\ Len(Received(up[u])) > Declared(up[u]).Size
    /\ up[u].err = "size mismatch"

\* C3: after a Download that ended successfully, the content bytes sent
\* number what every message sent carries as Size, which is the size f.Stat
\* gave.
C3_DownloadedBytesAreStatSize ==
  \A d \in DownloadIds :
    (down[d].pc = "done" /\ down[d].err = "nil") =>
      /\ Len(SentBytes(down[d])) = down[d].statSize
      /\ \A i \in 1..Len(down[d].sent) :
           down[d].sent[i].Size = down[d].statSize

C3_Witness ==
  \E d \in DownloadIds :
    /\ down[d].pc = "done"
    /\ down[d].err = "nil"
    /\ Len(down[d].sent) = 2
    /\ down[d].statSize = 2

\* C4, as claimed: a Download whose file was truncated or extended between
\* f.Stat and the handler's io.EOF never ends with success.
C4_ModifiedNeverSucceeds ==
  \A d \in DownloadIds :
    (down[d].pc = "done" /\ down[d].changes # <<>>) => down[d].err # "nil"

\* C4, amended: a Download whose file's length was changed exactly once
\* between f.Stat and the handler's io.EOF, by an extension or by a
\* truncation made before the handler had read as many bytes as f.Stat
\* gave, ends with the size-mismatch error unless a read or send error ends
\* it first, and never with success.
C4_OneEarlyChangeIsDetected ==
  \A d \in DownloadIds :
    LET s == down[d]
    IN  ( /\ s.pc = "done"
          /\ Len(s.changes) = 1
          /\ (s.changes[1].kind = "extend" \/ s.changes[1].early) )
        => s.err \in {"size mismatch", "read", "send"}

C4_Witness ==
  \E d \in DownloadIds :
    /\ down[d].pc = "done"
    /\ Len(down[d].changes) = 1
    /\ down[d].changes[1].kind = "truncate"
    /\ down[d].changes[1].early
    /\ down[d].sent # <<>>
    /\ down[d].err = "size mismatch"

\* C5: the process exits only after the Shutdown response has been written
\* to the caller.
C5_ResponseBeforeExit == exited => sh.flushed

\* C6: an Upload session that opened the destination has closed it by the
\* time it ends.
C6_UploadClosesFile ==
  \A u \in UploadIds :
    (up[u].pc = "done" /\ up[u].f.valid) => up[u].f.closed

\* C7: a Download session that opened the source has closed it when it
\* ends, whatever the way it ends, and not before.
C7_DownloadClosesFile ==
  \A d \in DownloadIds :
    down[d].f.valid => (down[d].f.closed <=> down[d].pc = "done")

C7_Witness ==
  \E d \in DownloadIds :
    /\ down[d].pc = "done"
    /\ down[d].err = "send"
    /\ down[d].sent # <<>>
    /\ down[d].f.valid
    /\ down[d].f.closed

\* C8: an Upload of no content bytes that declares size 0 (or has no
\* message) and whose stream ends ends in success with a total of 0, and
\* the handler has then been given a destination, which exists with size
\* 0; a Download of a file of size 0 ends in success with a total of 0.
\* Failures of the transport and of the system calls aside.
C8_ZeroByteTransfer ==
  /\ \A u \in UploadIds :
       LET s == up[u]
       IN  (s.eof /\ Received(s) = <<>> /\ DeclaredSize(s) = 0
              /\ s.err # "send")
           => /\ s.acked
              /\ s.totalBytes = 0
              /\ s.first # <<>>
              /\ files[Declared(s).Filename] = File(<<>>)
  /\ \A d \in DownloadIds :
       LET s == down[d]
       IN  (s.pc = "done" /\ s.statSize = 0 /\ s.err \notin {"open", "stat", "read"}
              /\ files[s.f.path].data = <<>>)
           => (s.err = "nil" /\ s.totalBytes = 0 /\ s.sent = <<>>)

\* C9: a Ping call answers "pong" and no error whatever its message, and
\* changes nothing else.
C9_PingIsPong ==
  [][(ping.pc = "idle" /\ ping'.pc = "done")
       => /\ ping'.resp = "pong"
          /\ ping'.err = "nil"
          /\ UNCHANGED <<files, up, down, sh, lsn, writes, exited>>]_vars

C9_Witness ==
  /\ ping.pc = "done"
  /\ ping.req = "ping"
  /\ ping.resp = "pong"
  /\ up["u1"].pc = "write"

\* What an Upload session on its own leaves in the file system: the bytes
\* it wrote, from offset 0 of the destination its first message named.
UploadAloneFiles(fs, s) ==
  IF s.first = <<>> \/ ~s.f.valid THEN fs
  ELSE [OpenFileCreate(fs, Declared(s).Filename)
          EXCEPT ![Declared(s).Filename].data =
                   WriteAt(@, 0, Received(s), s.written)]

\* How an Upload session on its own ends, given what its stream delivered.
UploadAloneOutcome(s) ==
  /\ s.acked <=> s.err = "nil"
  /\ s.err \in {"nil", "send"} => (s.eof /\ Len(Received(s)) = DeclaredSize(s))
  /\ s.err = "size mismatch" => (s.eof /\ Len(Received(s)) # DeclaredSize(s))
  /\ s.err = "open" => (Len(s.chunks) = 1 /\ ~s.f.valid /\ s.written = 0)
  /\ s.err \in {"nil", "send", "size mismatch", "recv"}
       => s.written = Len(Received(s))

\* C10: with a Ping call and an Upload session running together, each ends
\* as it does alone (Ping with "pong", the Upload with the outcome and the
\* file content its own stream determines) and neither waits for the other.
C10_PingAndUploadIndependent ==
  LET s == up["u1"]
  IN  /\ ping.pc = "idle" => ENABLED Ping
      /\ s.pc # "done" => ENABLED UploadNext("u1")
      /\ ping.pc = "done" => (ping.resp = "pong" /\ ping.err = "nil")
      /\ s.pc = "done" =>
           (UploadAloneOutcome(s) /\ files = UploadAloneFiles(files0, s))

C10_Witness ==
  /\ ping.pc = "done"
  /\ up["u1"].pc = "done"
  /\ up["u1"].acked
  /\ Len(up["u1"].chunks) = 2
  /\ up["u1"].written = 2

\* A session x of the service ends with an error in this step.
Fails(x) ==
  IF x \in UploadIds
  THEN up[x].pc # "done" /\ up'[x].pc = "done" /\ up'[x].err # "nil"
  ELSE down[x].pc # "done" /\ down'[x].pc = "done" /\ down'[x].err # "nil"

\* C11: the step in which a session ends with an error (open, read, write,
\* size mismatch, transport) leaves the process running and every other
\* session, the Ping call and the Shutdown call as they are; and a session
\* that has not ended can take its next step whatever the others did.
C11_ErrorEndsOneSession ==
  /\ [][\A x \in UploadIds \cup DownloadIds :
          Fails(x) =>
            /\ exited' = exited
            /\ \A u \in UploadIds \ {x} : up'[u] = up[u]
            /\ \A d \in DownloadIds \ {x} : down'[d] = down[d]
            /\ UNCHANGED <<ping, sh, lsn>>]_vars
  /\ [](/\ ~exited
        /\ up["u1"].pc # "done" => ENABLED UploadNextBytes("u1")
        /\ \A d \in DownloadIds :
             down[d].pc # "done" => ENABLED DownloadNext(d))

C11_Witness ==
  /\ up["u1"].pc = "done"
  /\ up["u1"].err = "write"
  /\ up["u1"].written = 1
  /\ down["d1"].pc = "done"
  /\ down["d1"].err = "nil"
  /\ down["d1"].f.path = up["u1"].f.path
  /\ down["d1"].sent # <<>>
  /\ ping.pc = "done"
  /\ ~exited

\* C12, as claimed: a session that was in progress when Shutdown was called
\* does not complete with its normal outcome afterwards.
C12_InflightNeverCompletes ==
  /\ \A u \in UploadIds \cap sh.inflight :
       ~(up[u].pc = "done" /\ up[u].err = "nil")
  /\ \A d \in DownloadIds \cap sh.inflight :
       ~(down[d].pc = "done" /\ down[d].err = "nil")

\* C12, amended: once the timer goroutine of Shutdown has run, the process
\* has exited and no Upload or Download session takes another step: the
\* sessions still in progress then reach no outcome of their handler, and
\* the files stay as they are.  (Before that, for as long as the timer
\* waits, the sessions go on and can complete.)
C12_ExitCutsSessions ==
  [][sh.timer = "fired" =>
       (exited /\ up' = up /\ down' = down /\ files' = files)]_vars

C12_Witness ==
  /\ exited
  /\ sh.inflight = {"u1", "d1"}
  /\ up["u1"].pc = "write"
  /\ down["d1"].pc = "send"

\* C13: an Upload session calls os.OpenFile once, when its first message
\* arrives, and never again; the destination and the declared size are
\* those of the first message; a later message, whatever its Filename and
\* Size, changes nothing of the session but the message in hand and what
\* the stream has delivered, and nothing of the files.
C13_FirstMessageDecides ==
  /\ [](\A u \in UploadIds :
          LET s == up[u]
          IN  /\ s.opens = IF s.chunks = <<>> THEN 0 ELSE 1
              /\ s.expectedSize = DeclaredSize(s)
              /\ s.f.valid => s.f.path = Declared(s).Filename)
  /\ [][\A u \in UploadIds :
          (up[u].once /\ Len(up'[u].chunks) > Len(up[u].chunks)) =>
            /\ files' = files
            /\ up'[u] = [up[u] EXCEPT !.pc = "write",
                                      !.req = up'[u].req,
                                      !.chunks = up'[u].chunks]]_vars

C13_Witness ==
  \E u \in UploadIds :
    /\ up[u].pc = "write"
    /\ Len(up[u].chunks) = 2
    /\ up[u].req[1].Filename # Declared(up[u]).Filename
    /\ up[u].req[1].Size # Declared(up[u]).Size
    /\ up[u].f.path = Declared(up[u]).Filename
    /\ up[u].expectedSize = Declared(up[u]).Size
    /\ up[u].opens = 1

\* C14: when an Upload session fails (size mismatch, write error, receive
\* error) after it has written bytes, the failing step does nothing to the
\* files but what its f.Write stored, and the destination then holds the
\* bytes written, over what it held before: it is not removed, truncated
\* or rolled back.
C14_FailedUploadLeavesFile ==
  /\ [](\A u \in UploadIds :
          LET s == up[u]
          IN  ( /\ s.pc = "done"
                /\ s.err \in {"size mismatch", "write", "recv"}
                /\ s.written > 0 )
              => /\ files[s.f.path].exists
                 /\ Take(files[s.f.path].data, s.written)
                      = Take(Received(s), s.written)
                 /\ files = UploadAloneFiles(files0, s))
  /\ [][\A u \in UploadIds :
          (Fails(u) /\ up'[u].err \in {"size mismatch", "recv"})
            => files' = files]_vars

C14_Witness ==
  \E u \in UploadIds :
    /\ up[u].pc = "done"
    /\ up[u].err = "size mismatch"
    /\ up[u].written = 1
    /\ Len(files0[up[u].f.path].data) = 2
    /\ Len(files[up[u].f.path].data) = 2

\* C15: when Recv returns an error other than io.EOF the Upload session
\* ends at once with an error: the step writes nothing and sends no
\* acknowledgement, even when the bytes written equal the declared size,
\* and the session does nothing afterwards (no Recv, no write).
C15_RecvErrorIsTerminal ==
  /\ [](\A u \in UploadIds :
          up[u].recvErr =>
            (up[u].pc = "done" /\ up[u].err = "recv" /\ ~up[u].acked))
  /\ [][\A u \in UploadIds :
          /\ up[u].recvErr => up'[u] = up[u]
          /\ (~up[u].recvErr /\ up'[u].recvErr) =>
               /\ files' = files
               /\ up'[u] = [up[u] EXCEPT !.pc = "done", !.err = "recv",
                                         !.recvErr = TRUE]]_vars

C15_Witness ==
  \E u \in UploadIds :
    /\ up[u].recvErr
    /\ up[u].totalBytes = 2
    /\ up[u].totalBytes = up[u].expectedSize
    /\ ping.pc = "done"
    /\ down["d1"].pc = "done"

\* C16: two Upload sessions to one path are not serialised: each has its
\* own handle, whose offset counts its own writes only; whenever both have
\* a message in hand, either write can be the next step; and a step of one
\* session changes nothing of the other.  (The witness: both are
\* acknowledged and the file holds what neither has sent.)
C16_UploadsInterleave ==
  /\ [](\A u \in UploadIds :
          /\ up[u].f.valid => up[u].f.off = up[u].written
          /\ up[u].pc = "write" => ENABLED UploadWrite(u))
  /\ [][\A u, v \in UploadIds :
          (u # v /\ up'[u] # up[u]) => up'[v] = up[v]]_vars

C16_Witness ==
  /\ \A u \in UploadIds :
       /\ up[u].acked
       /\ up[u].f.path = "a"
       /\ Received(up[u]) # files["a"].data
  /\ Received(up["u1"]) # Received(up["u2"])
  /\ Len(files["a"].data) = 2

\* C17: in a Download with no writer at work on the files, the bytes sent
\* are the first totalBytes bytes of the file, in the file's order;
\* totalBytes counts the bytes of the messages sent and no others; a
\* message carries at most StreamBufferSize bytes; the chunk in hand is the
\* part of the file that follows the bytes sent; a session that ended with
\* success has sent the whole file; and a Send that fails ends the session
\* with nothing added to what was sent.
C17_DownloadSendsFileInOrder ==
  /\ [](\A d \in DownloadIds :
          LET s == down[d]
              data == files[s.f.path].data
          IN  (s.f.valid /\ writes = 0) =>
                /\ SentBytes(s) = Take(data, s.totalBytes)
                /\ s.totalBytes = Len(SentBytes(s))
                /\ \A i \in 1..Len(s.sent) :
                     Len(s.sent[i].Content) <= StreamBufferSize
                /\ s.pc = "send" =>
                     s.buf = SubSeq(data, s.totalBytes + 1,
                                    s.totalBytes + Len(s.buf))
                /\ (s.pc = "done" /\ s.err = "nil") => SentBytes(s) = data)
  /\ [](\A d \in DownloadIds : down[d].err = "send" => down[d].pc = "done")
  /\ [][\A d \in DownloadIds :
          /\ down[d].pc = "done" => down'[d].sent = down[d].sent
          /\ (down[d].pc = "send" /\ down'[d].pc # "send"
                 /\ down'[d].sent = down[d].sent)
               => (down'[d].pc = "done" /\ down'[d].err = "send"
                     /\ down'[d].totalBytes = down[d].totalBytes)]_vars

C17_Witness ==
  \E d \in DownloadIds :
    /\ down[d].pc = "done"
    /\ down[d].err = "nil"
    /\ writes = 0
    /\ Len(files[down[d].f.path].data) = 2
    /\ Len(down[d].sent) = 2
    /\ down[d].sent[1].Content # down[d].sent[2].Content

\* C18: whenever an Upload session is at the head of its loop, totalBytes
\* is the sum of the lengths of the Content of all messages received, the
\* first included, and is the number of bytes the session has written;
\* and a write that stores fewer bytes than the Content in hand ends the
\* session with the write error, totalBytes unchanged.
C18_TotalIsReceivedIsWritten ==
  /\ [](\A u \in UploadIds :
          up[u].pc = "recv" =>
            /\ up[u].totalBytes = Len(Received(up[u]))
            /\ up[u].totalBytes = up[u].written)
  /\ [][\A u \in UploadIds :
          ( /\ up[u].pc = "write"
            /\ up'[u] # up[u]
            /\ up'[u].written - up[u].written < Len(up[u].req[1].Content) )
          => /\ up'[u].pc = "done"
             /\ up'[u].err = "write"
             /\ up'[u].totalBytes = up[u].totalBytes]_vars

C18_Witness ==
  \E u \in UploadIds :
    /\ up[u].pc = "done"
    /\ up[u].err = "write"
    /\ Len(up[u].chunks) = 2
    /\ up[u].totalBytes = Len(up[u].chunks[1])
    /\ up[u].totalBytes > 0
    /\ up[u].written = up[u].totalBytes + 1
    /\ Len(up[u].chunks[2]) = 2

\* C19: the Upload session and the Download session each come to their
\* end; a session that has its outcome is at its end, the outcome being
\* success or one error (for an Upload, success is the acknowledgement);
\* and a session at its end takes no further step.
C19_SessionsTerminate ==
  /\ <>(up["u1"].pc = "done")
  /\ <>(down["d1"].pc = "done")
  /\ [](/\ (up["u1"].err # "") = (up["u1"].pc = "done")
        /\ up["u1"].acked = (up["u1"].err = "nil")
        /\ (down["d1"].err # "") = (down["d1"].pc = "done"))
  /\ [][/\ up["u1"].pc = "done" => up'["u1"] = up["u1"]
        /\ down["d1"].pc = "done" => down'["d1"] = down["d1"]]_vars

C19_Witness ==
  /\ up["u1"].pc = "done"
  /\ up["u1"].acked
  /\ Len(up["u1"].chunks) = 2
  /\ down["d1"].pc = "done"
  /\ down["d1"].err = "nil"
  /\ ~files0[down["d1"].f.path].exists
  /\ Len(down["d1"].sent) = 1

\* C20: when newListener has returned an error, it has returned no
\* listener and the socket it bound, if it bound one, is not open; when it
\* has returned no error, it has returned the plain listener if opt.TLS is
\* false and the TLS listener otherwise.
C20_ErrorLeavesNoSocket ==
  lsn.pc = "done" =>
    IF lsn.err # "nil"
    THEN lsn.ret = "nil" /\ lsn.lis # "open"
    ELSE lsn.ret = IF lsn.opt[1].TLS THEN "tls" ELSE "plain"

====
